---------------------------- MODULE Spec2Model ----------------------------
(***************************************************************************)
(* A model of llvm-profparser's instrumentation profile data model         *)
(* (src/instrumentation_profile/types.rs) and of the `show` command's scan *)
(* over the records of a profile (src/main.rs).                            *)
(*                                                                         *)
(* Three specifications share the module:                                  *)
(*   Spec        the context-sensitive flag of a NamedInstrProfRecord      *)
(*   SpecSymtab  Symtab::add_func_name                                     *)
(*   SpecShow    ShowCommand::run                                          *)
(*                                                                         *)
(* Representation.  A u64 is the set of the positions of its 1 bits (TLC's *)
(* integers are 32 bits wide), so shifts and masks are computed on all 64  *)
(* bits.  An Option<T> is a sequence of length 0 (None) or 1 (Some).  A    *)
(* String is a sequence of one-character strings.                          *)
(***************************************************************************)
EXTENDS Integers, Sequences, FiniteSets, TLC

VARIABLES
    rec,          \* Spec: the NamedInstrProfRecord the methods act on
    called,       \* Spec: the method called last
    ret,          \* Spec: what has_cs_flag returned last
    names,        \* SpecSymtab: Symtab.names, a map u64 -> String
    md5,          \* SpecSymtab: the digest function of the md5 crate
    added,        \* SpecSymtab: the arguments of add_func_name so far
    profile,      \* SpecShow: the parsed InstrumentationProfile
    opts,         \* SpecShow: the ShowCommand (self)
    pc,           \* SpecShow: where run() is
    idx,          \* SpecShow: how many records the for loop has taken
    summary,      \* SpecShow: the records given to summary.add_record
    stats,        \* SpecShow: the records given to stats[kind].traverse_sites
    shown_funcs,  \* SpecShow: the local shown_funcs
    out           \* SpecShow: the lines printed so far

hashVars == <<rec, called, ret>>
symVars  == <<names, md5, added>>
showVars == <<profile, opts, pc, idx, summary, stats, shown_funcs, out>>
vars     == <<rec, called, ret, names, md5, added,
              profile, opts, pc, idx, summary, stats, shown_funcs, out>>

---------------------------------------------------------------------------
(* Bounds of the model *)

\* the hashes of Spec have at most MaxBits bits set, or at most MaxBits clear
MaxBits == 2
\* add_func_name is called at most MaxAdds times
MaxAdds == 3
\* a profile holds at most MaxRecords records
MaxRecords == 2

---------------------------------------------------------------------------
(* Option<T> and u64 *)

None == <<>>
Some(x) == <<x>>

\* the width of the structural hash, u64
WordBits == 64

BitPos == 0 .. (WordBits - 1)

\* the u64 whose value is the natural n, n < 2^31
ToU64(n) == {i \in 0 .. 30 : (n \div (2 ^ i)) % 2 = 1}

\* the literals of the code, as u64
U64_0 == ToU64(0)
U64_1 == ToU64(1)

\* a >> n on u64
Shr(a, n) == {b - n : b \in {x \in a : x >= n}}

\* a & b on u64
BitAnd(a, b) == a \cap b

\* Option<u64>::unwrap_or_default
unwrap_or_default(o) == IF o = None THEN U64_0 ELSE o[1]

---------------------------------------------------------------------------
(* NamedInstrProfRecord *)

CS_FLAG_IN_FUNC_HASH == 60

\* CS_FLAG_IN_FUNC_HASH as the u64 operand of &=
U64_CS_FLAG == ToU64(CS_FLAG_IN_FUNC_HASH)

InstrProfRecordDefault == [counts |-> <<>>, data |-> None]

\* a mutant of has_cs_flag: the flag is read one bit too low
has_cs_flag_low(func) ==
    LET hash == unwrap_or_default(func.hash)
    IN  BitAnd(Shr(hash, CS_FLAG_IN_FUNC_HASH - 1), U64_1) # U64_0

has_cs_flag(func) ==
    LET hash == unwrap_or_default(func.hash)
    IN  BitAnd(Shr(hash, CS_FLAG_IN_FUNC_HASH), U64_1) # U64_0

\* the record after set_cs_flag: get_or_insert(0), then *x &= 60
set_cs_flag(func) ==
    LET x == IF func.hash = None THEN U64_0 ELSE func.hash[1]
    IN  [func EXCEPT !.hash = Some(BitAnd(x, U64_CS_FLAG))]

---------------------------------------------------------------------------
(* Spec: set_cs_flag and has_cs_flag called in any order on a record       *)

RECURSIVE BitSets(_)
BitSets(n) ==
    IF n = 0 THEN {{}}
    ELSE LET S == BitSets(n - 1) IN S \cup {s \cup {b} : s \in S, b \in BitPos}

\* the hashes a record starts with: sparse ones and dense ones
HashInputs == BitSets(MaxBits) \cup {BitPos \ s : s \in BitSets(MaxBits)}

HashIdle ==
    /\ rec = [name |-> None, hash |-> None, record |-> InstrProfRecordDefault]
    /\ called = "new"
    /\ ret = FALSE

InitHash ==
    /\ \E h \in {None} \cup {Some(b) : b \in HashInputs} :
          rec = [name |-> None, hash |-> h, record |-> InstrProfRecordDefault]
    /\ called = "new"
    /\ ret = FALSE

SetCsFlag ==
    /\ rec' = set_cs_flag(rec)
    /\ called' = "set_cs_flag"
    /\ UNCHANGED ret

HasCsFlag ==
    /\ ret' = has_cs_flag(rec)
    /\ called' = "has_cs_flag"
    /\ UNCHANGED rec

---------------------------------------------------------------------------
(* Symtab *)

\* the function names given to add_func_name
FuncNames == {<<"f">>, <<"f", "g">>, <<"g">>}

\* the values the first 8 bytes of a digest, read as a native-endian u64,
\* may take; md5 is any function from the names to these values, so that
\* both colliding and collision-free names are covered
DigestVals == {ToU64(1), ToU64(6), {63}}

\* BTreeMap::insert: the entry under k is added or replaced
insert(m, k, v) == [x \in (DOMAIN m) \cup {k} |-> IF x = k THEN v ELSE m[x]]

\* BTreeMap::get on Symtab.names
lookup(m, h) == IF h \in DOMAIN m THEN Some(m[h]) ELSE None

\* Symtab::len
len(m) == Cardinality(DOMAIN m)

\* a mutant of add_func_name: the map is rebuilt with the new entry alone
add_func_name_alone(m, name) == insert(<<>>, md5[name], name)

\* a mutant of add_func_name: an entry already under the hash is kept
add_func_name_keep(m, name) ==
    IF md5[name] \in DOMAIN m THEN m ELSE insert(m, md5[name], name)

\* Symtab.names after add_func_name(name)
add_func_name(m, name) ==
    LET hash == md5[name]
    IN  insert(m, hash, name)

SymIdle ==
    /\ names = <<>>
    /\ md5 = <<>>
    /\ added = <<>>

InitSymtab ==
    /\ names = <<>>
    /\ md5 \in [FuncNames -> DigestVals]
    /\ added = <<>>

AddFuncName ==
    /\ Len(added) < MaxAdds
    /\ \E name \in FuncNames :
          /\ names' = add_func_name(names, name)
          /\ added' = Append(added, name)
    /\ UNCHANGED md5

---------------------------------------------------------------------------
(* Formatting: `{}` of an unsigned integer, `{:x}` of a u64, join *)

Digits == <<"0", "1", "2", "3", "4", "5", "6", "7", "8", "9",
            "a", "b", "c", "d", "e", "f">>

\* u64::to_string / `{}` of a usize: the decimal digits, most significant first
RECURSIVE to_string(_)
to_string(n) ==
    IF n < 10 THEN <<Digits[n + 1]>>
    ELSE to_string(n \div 10) \o <<Digits[(n % 10) + 1]>>

\* the value of the k-th hexadecimal digit of a u64 (k = 0 the lowest)
Nibble(a, k) ==
    LET b(j) == IF (4 * k + j) \in a THEN 1 ELSE 0
    IN  b(0) + 2 * b(1) + 4 * b(2) + 8 * b(3)

\* `{:x}` of a u64: the hexadecimal digits without leading zeros
to_hex(a) ==
    LET used == {k \in 0 .. (WordBits \div 4 - 1) : Nibble(a, k) # 0}
        top  == IF used = {} THEN 0
                ELSE CHOOSE k \in used : \A l \in used : l <= k
    IN  [i \in 1 .. (top + 1) |-> Digits[Nibble(a, top + 1 - i) + 1]]

\* [String]::join(sep)
RECURSIVE join(_, _)
join(strs, sep) ==
    IF Len(strs) = 0 THEN <<>>
    ELSE IF Len(strs) = 1 THEN strs[1]
    ELSE strs[1] \o sep \o join(Tail(strs), sep)

\* Iterator::skip(n) over a slice
skip(s, n) == IF n >= Len(s) THEN <<>> ELSE SubSeq(s, n + 1, Len(s))

\* str::contains(pat) for a string pattern
contains(s, pat) ==
    \E i \in 0 .. Len(s) :
        /\ i + Len(pat) <= Len(s)
        /\ \A k \in 1 .. Len(pat) : s[i + k] = pat[k]

---------------------------------------------------------------------------
(* The inputs of show: a profile and the flags *)

\* a value site with no samples
Site == <<>>

\* the counters and value profile data of a record
RecordBodies ==
    { [counts |-> <<>>, data |-> None],
      [counts |-> <<7, 0, 12>>,
       data |-> Some([indirect_callsites |-> <<Site>>,
                      mem_op_sizes |-> <<Site, Site>>])] }

\* structural hashes without and with the context-sensitive flag
RecordHashes == {ToU64(5), ToU64(5) \cup {CS_FLAG_IN_FUNC_HASH}}

\* the records a profile is made of: the usable ones, and one without a
\* name and one without a hash
Records ==
    { [name |-> Some(n), hash |-> Some(h), record |-> b] :
          n \in {<<"f">>, <<"f", "g">>}, h \in RecordHashes, b \in RecordBodies }
    \cup
    { [name |-> None, hash |-> Some(ToU64(5) \cup {CS_FLAG_IN_FUNC_HASH}),
       record |-> [counts |-> <<3>>, data |-> None]],
      [name |-> Some(<<"f", "g">>), hash |-> None,
       record |-> [counts |-> <<7, 0, 12>>,
                   data |-> Some([indirect_callsites |-> <<Site>>,
                                  mem_op_sizes |-> <<>>])]] }

RECURSIVE SeqsUpTo(_, _)
SeqsUpTo(S, n) ==
    IF n = 0 THEN {<<>>}
    ELSE LET P == SeqsUpTo(S, n - 1)
         IN  P \cup {Append(p, x) : p \in {q \in P : Len(q) = n - 1}, x \in S}

Profiles == [is_ir : BOOLEAN, records : SeqsUpTo(Records, MaxRecords)]

Flags ==
    [show_counts : BOOLEAN, all_functions : BOOLEAN, ic_targets : BOOLEAN,
     memop_sizes : BOOLEAN, show_detailed_summary : BOOLEAN, showcs : BOOLEAN,
     function : {None, Some(<<"g">>)}]

---------------------------------------------------------------------------
(* ShowCommand::run *)

\* InstrumentationProfile::is_ir_level_profile
is_ir_level_profile(p) == p.is_ir

\* InstrumentationProfile::get_level, as its Display prints it
get_level(p) ==
    IF is_ir_level_profile(p) THEN <<"I", "R">>
    ELSE <<"F", "r", "o", "n", "t", "-", "e", "n", "d">>

\* NamedInstrProfRecord::num_value_sites
num_value_sites(func, valuekind) ==
    IF func.record.data = None THEN 0
    ELSE IF valuekind = "IndirectCallTarget"
         THEN Len(func.record.data[1].indirect_callsites)
         ELSE Len(func.record.data[1].mem_op_sizes)

\* NamedInstrProfRecord::counts
counts(func) == func.record.counts

\* a mutant of check_function: with no pattern every function matches
check_function_all(name, pattern) ==
    IF pattern # None
    THEN (IF name # None THEN contains(name[1], pattern[1]) ELSE FALSE)
    ELSE TRUE

check_function(name, pattern) ==
    IF pattern # None
    THEN (IF name # None THEN contains(name[1], pattern[1]) ELSE FALSE)
    ELSE FALSE

\* mutants of Unusable: only the hash, only the name is looked at
Unusable_hash_only(func) == func.hash = None
Unusable_name_only(func) == func.name = None

\* the first test of the loop: the record is skipped
Unusable(func) == func.name = None \/ func.hash = None

\* a mutant of CsMismatch: the test is made for front-end profiles too
CsMismatch_any_level(func) == has_cs_flag(func) # opts.showcs

\* the second test of the loop: the record is skipped
CsMismatch(func) ==
    LET is_ir_instr == is_ir_level_profile(profile)
    IN  is_ir_instr /\ has_cs_flag(func) # opts.showcs

\* the local `show`
Show(func) ==
    opts.all_functions \/ check_function(func.name, opts.function)

\* a mutant of StartSlot: slot 0 is never left out
StartSlot_zero(is_ir_instr) == 0

\* the local `start`: the first slot listed as a block count
StartSlot(is_ir_instr) == IF is_ir_instr THEN 0 ELSE 1

\* a line written by println!: the text of the format string before its
\* argument, the formatted argument, and the loop iteration that wrote it
\* (0 outside the loop)
Line(i, label, text) == [at |-> i, label |-> label, text |-> text]

\* ProfileSummary::add_record, recorded as the call made
add_record(s, i) == Append(s, i)

\* ProfileSummary::num_functions
num_functions(s) == Len(s)

MaxOf(S) == IF S = {} THEN 0 ELSE CHOOSE m \in S : \A x \in S : x <= m

\* ProfileSummary::max_function_count
max_function_count(s) ==
    MaxOf({counts(profile.records[s[k]])[1] :
              k \in {j \in 1 .. Len(s) : Len(counts(profile.records[s[j]])) > 0}})

\* ProfileSummary::max_internal_block_count
max_internal_block_count(s) ==
    MaxOf(UNION {{counts(profile.records[s[k]])[c] :
                     c \in 2 .. Len(counts(profile.records[s[k]]))} :
                 k \in 1 .. Len(s)})

\* the record the loop takes next
Func == profile.records[idx + 1]

\* the display of a record panics: an unwrap() of None, or counts[0] of a
\* record without counters
Panics(func) ==
    \/ func.name = None
    \/ func.hash = None
    \/ (~is_ir_level_profile(profile) /\ Len(func.record.counts) = 0)

HeaderLines(i) ==
    IF shown_funcs = 0 THEN <<Line(i, "Counters:", <<>>)>> ELSE <<>>

\* the lines of a displayed record that precede the panic
LinesBeforePanic(func, i) ==
    HeaderLines(i)
    \o (IF func.name = None THEN <<>>
        ELSE <<Line(i, "  {}:", func.name[1])>>
             \o (IF func.hash = None THEN <<>>
                 ELSE << Line(i, "    Hash: 0x", to_hex(func.hash[1])),
                         Line(i, "    Counters: ",
                              to_string(Len(func.record.counts))) >>))

\* the lines of a displayed record
RecordLines(func, i) ==
    LET is_ir_instr == is_ir_level_profile(profile)
        num_memop_calls == num_value_sites(func, "MemOpSize")
        start == StartSlot(is_ir_instr)
        block == join([k \in 1 .. Len(skip(counts(func), start)) |->
                          to_string(skip(counts(func), start)[k])], <<",">>)
    IN  HeaderLines(i)
        \o << Line(i, "  {}:", func.name[1]),
              Line(i, "    Hash: 0x", to_hex(func.hash[1])),
              Line(i, "    Counters: ", to_string(Len(func.record.counts))) >>
        \o (IF ~is_ir_instr
            THEN <<Line(i, "    Function Count: ",
                        to_string(func.record.counts[1]))>>
            ELSE <<>>)
        \o (IF opts.ic_targets
            THEN <<Line(i, "    Indirect Call Site Count: ",
                        to_string(num_value_sites(func, "IndirectCallTarget")))>>
            ELSE <<>>)
        \o (IF opts.memop_sizes /\ num_memop_calls > 0
            THEN <<Line(i, "    Number of Memory Intrinsics Calls: ",
                        to_string(num_memop_calls))>>
            ELSE <<>>)
        \o (IF opts.show_counts
            THEN <<Line(i, "    Block counts: ", <<"[">> \o block \o <<"]">>)>>
            ELSE <<>>)
        \o (IF opts.ic_targets
            THEN <<Line(i, "    Indirect Target Results:", <<>>)>>
            ELSE <<>>)
        \o (IF opts.memop_sizes /\ num_memop_calls > 0
            THEN <<Line(i, "    Memory Intrinsic Size Results:", <<>>)>>
            ELSE <<>>)

\* stats after the traverse_sites calls of a displayed record
\* (stats[1] is IndirectCallTarget = 0, stats[2] is MemOpSize = 1)
StatsAfter(func, i) ==
    LET num_memop_calls == num_value_sites(func, "MemOpSize")
    IN  << IF opts.ic_targets THEN Append(stats[1], i) ELSE stats[1],
           IF opts.memop_sizes /\ num_memop_calls > 0
           THEN Append(stats[2], i) ELSE stats[2] >>

\* the lines written after the loop
ReportLines ==
    << Line(0, "Instrumentation level: ", get_level(profile)),
       Line(0, "Functions shown: ", to_string(shown_funcs)),
       Line(0, "Total functions: ", to_string(num_functions(summary))),
       Line(0, "Maximum function count: ",
            to_string(max_function_count(summary))),
       Line(0, "Maximum internal block count: ",
            to_string(max_internal_block_count(summary))) >>
    \o (IF opts.ic_targets /\ shown_funcs > 0
        THEN << Line(0, "Statistics for indirect call sites profile:", <<>>),
                Line(0, "{stats[IndirectCallTarget]}", <<>>) >>
        ELSE <<>>)
    \o (IF opts.memop_sizes /\ shown_funcs > 0
        THEN << Line(0, "Statistics for memory instrinsic calls sizes profile:", <<>>),
                Line(0, "{stats[MemOpSize]}", <<>>) >>
        ELSE <<>>)
    \o (IF opts.show_detailed_summary
        THEN << Line(0, "Total number of blocks: ?", <<>>),
                Line(0, "Total count: ?", <<>>) >>
        ELSE <<>>)

ShowIdle ==
    /\ profile = [is_ir |-> FALSE, records |-> <<>>]
    /\ opts = [show_counts |-> FALSE, all_functions |-> FALSE,
               ic_targets |-> FALSE, memop_sizes |-> FALSE,
               show_detailed_summary |-> FALSE, showcs |-> FALSE,
               function |-> None]
    /\ pc = "idle"
    /\ idx = 0
    /\ summary = <<>>
    /\ stats = << <<>>, <<>> >>
    /\ shown_funcs = 0
    /\ out = <<>>

\* the state as the for loop is entered
InitShow ==
    /\ profile \in Profiles
    /\ opts \in Flags
    /\ pc = "scan"
    /\ idx = 0
    /\ summary = <<>>
    /\ stats = << <<>>, <<>> >>
    /\ shown_funcs = 0
    /\ out = <<>>

InLoop == pc = "scan" /\ idx < Len(profile.records)

\* an iteration that ends at the first `continue`
SkipUnusable ==
    /\ InLoop
    /\ Unusable(Func)
    /\ idx' = idx + 1
    /\ UNCHANGED <<profile, opts, pc, summary, stats, shown_funcs, out>>

\* an iteration that ends at the second `continue`
SkipCsMismatch ==
    /\ InLoop
    /\ ~Unusable(Func)
    /\ CsMismatch(Func)
    /\ idx' = idx + 1
    /\ UNCHANGED <<profile, opts, pc, summary, stats, shown_funcs, out>>

\* an iteration that adds the record to the summary and does not show it
AddNotShown ==
    /\ InLoop
    /\ ~Unusable(Func)
    /\ ~CsMismatch(Func)
    /\ ~Show(Func)
    /\ summary' = add_record(summary, idx + 1)
    /\ idx' = idx + 1
    /\ UNCHANGED <<profile, opts, pc, stats, shown_funcs, out>>

\* an iteration that adds the record to the summary and shows it
ShowRecord ==
    /\ InLoop
    /\ ~Unusable(Func)
    /\ ~CsMismatch(Func)
    /\ Show(Func)
    /\ ~Panics(Func)
    /\ summary' = add_record(summary, idx + 1)
    /\ shown_funcs' = shown_funcs + 1
    /\ out' = out \o RecordLines(Func, idx + 1)
    /\ stats' = StatsAfter(Func, idx + 1)
    /\ idx' = idx + 1
    /\ UNCHANGED <<profile, opts, pc>>

\* an iteration that adds the record to the summary, starts to show it and
\* panics
ShowPanics ==
    /\ InLoop
    /\ ~Unusable(Func)
    /\ ~CsMismatch(Func)
    /\ Show(Func)
    /\ Panics(Func)
    /\ summary' = add_record(summary, idx + 1)
    /\ shown_funcs' = shown_funcs + 1
    /\ out' = out \o LinesBeforePanic(Func, idx + 1)
    /\ idx' = idx + 1
    /\ pc' = "panicked"
    /\ UNCHANGED <<profile, opts, stats>>

\* the loop is over: the report is written and run returns Ok(())
Report ==
    /\ pc = "scan"
    /\ idx = Len(profile.records)
    /\ out' = out \o ReportLines
    /\ pc' = "done"
    /\ UNCHANGED <<profile, opts, idx, summary, stats, shown_funcs>>

---------------------------------------------------------------------------
(* The specifications *)

Init == InitHash /\ SymIdle /\ ShowIdle

Next ==
    \/ SetCsFlag /\ UNCHANGED <<symVars, showVars>>
    \/ HasCsFlag /\ UNCHANGED <<symVars, showVars>>

\* set_cs_flag and has_cs_flag on a record
Spec == Init /\ [][Next]_vars

NextSymtab == AddFuncName /\ UNCHANGED <<hashVars, showVars>>

\* add_func_name on a symbol table
InitSym == HashIdle /\ InitSymtab /\ ShowIdle

SpecSymtab == InitSym /\ [][NextSymtab]_vars

NextShow ==
    \/ SkipUnusable /\ UNCHANGED <<hashVars, symVars>>
    \/ SkipCsMismatch /\ UNCHANGED <<hashVars, symVars>>
    \/ AddNotShown /\ UNCHANGED <<hashVars, symVars>>
    \/ ShowRecord /\ UNCHANGED <<hashVars, symVars>>
    \/ ShowPanics /\ UNCHANGED <<hashVars, symVars>>
    \/ Report /\ UNCHANGED <<hashVars, symVars>>

\* the show command on a profile
InitRun == HashIdle /\ SymIdle /\ InitShow

SpecShow == InitRun /\ [][NextShow]_vars

---------------------------------------------------------------------------
(* The context-sensitive flag *)

\* the bits of the hash of rec, an absent hash read as 0
HashBits(r) == IF r.hash = None THEN {} ELSE r.hash[1]

\* C1: after set_cs_flag(), has_cs_flag() returns true and every bit of the
\* hash other than bit 60 has the value it had before the call (an absent
\* hash counting as 0).
C1_SetCsFlagSetsOnlyBit60 ==
    [][SetCsFlag =>
          /\ has_cs_flag(rec')
          /\ \A b \in BitPos \ {60} : (b \in HashBits(rec')) <=> (b \in HashBits(rec))
      ]_vars

\* C2: has_cs_flag() returns true exactly when bit 60 of the hash is 1,
\* whatever the other bits are; a record whose hash is absent reports false.
C2_HasCsFlagReadsBit60 ==
    called = "has_cs_flag" => (ret <=> (rec.hash # None /\ 60 \in rec.hash[1]))

\* has_cs_flag returned true on a hash with bit 60 and other bits set
C2_Witness ==
    /\ called = "has_cs_flag"
    /\ ret
    /\ rec.hash # None
    /\ Cardinality(rec.hash[1]) > 2

---------------------------------------------------------------------------
(* The symbol table *)

AddedNames == {added[i] : i \in 1 .. Len(added)}

NoCollision == \A a, b \in AddedNames : md5[a] = md5[b] => a = b

\* C3: when no two distinct added names have the same hash, every added
\* name is found under its own hash and len() is the number of distinct
\* names added.
C3_RoundTrip ==
    NoCollision =>
        /\ \A n \in AddedNames : lookup(names, md5[n]) = Some(n)
        /\ len(names) = Cardinality(AddedNames)

\* two names without a collision were added, one of them twice
C3_Witness ==
    /\ NoCollision
    /\ Cardinality(AddedNames) = 2
    /\ Len(added) = 3
    /\ len(names) = 2

\* the last call of add_func_name whose name has the hash h
LastAddOf(h) ==
    CHOOSE i \in 1 .. Len(added) :
        /\ md5[added[i]] = h
        /\ \A j \in 1 .. Len(added) : md5[added[j]] = h => j <= i

\* C4: the table maps each hash of an added name to one name, the one
\* inserted most recently among the added names with that hash; an insertion
\* therefore leaves the entries under the other hashes as they were.
C4_LastWriteWins ==
    /\ DOMAIN names = {md5[n] : n \in AddedNames}
    /\ \A h \in DOMAIN names : names[h] = added[LastAddOf(h)]

\* two distinct names with the same hash were added, and a third under
\* another hash before them
C4_Witness ==
    /\ Len(added) = 3
    /\ added[2] # added[3]
    /\ md5[added[2]] = md5[added[3]]
    /\ md5[added[1]] # md5[added[2]]
    /\ names[md5[added[2]]] = added[3]
    /\ names[md5[added[1]]] = added[1]

---------------------------------------------------------------------------
(* The show scan *)

\* the records the loop has taken
Scanned == 1 .. idx

\* the record has a name and a hash
HasNameAndHash(i) ==
    profile.records[i].name # None /\ profile.records[i].hash # None

\* bit 60 of the record's hash is set
FlagSet(i) == 60 \in HashBits(profile.records[i])

\* the records given to the summary
Summarised == {summary[k] : k \in 1 .. Len(summary)}

\* the lines a loop iteration wrote
LinesOf(i) == {k \in 1 .. Len(out) : out[k].at = i}

\* the lines a loop iteration wrote with a given format string
LinesWith(i, label) == {k \in LinesOf(i) : out[k].label = label}

\* the records whose name was printed
Displayed == {i \in Scanned : LinesWith(i, "  {}:") # {}}

\* the records given to the value-site statistics
InStats == {stats[1][k] : k \in 1 .. Len(stats[1])}
               \cup {stats[2][k] : k \in 1 .. Len(stats[2])}

\* the record passes the two skip tests of the scan
PassesFilters(i) ==
    HasNameAndHash(i) /\ (profile.is_ir => (FlagSet(i) <=> opts.showcs))

\* the number a decimal numeral denotes
RECURSIVE ParseDec(_)
ParseDec(s) ==
    IF Len(s) = 0 THEN 0
    ELSE 10 * ParseDec(SubSeq(s, 1, Len(s) - 1))
         + (CHOOSE d \in 0 .. 9 : Digits[d + 1] = s[Len(s)])

\* the fields of a comma-separated list
RECURSIVE Fields(_)
Fields(s) ==
    IF \A k \in 1 .. Len(s) : s[k] # ","
    THEN <<s>>
    ELSE LET k == CHOOSE j \in 1 .. Len(s) :
                      s[j] = "," /\ \A l \in 1 .. (j - 1) : s[l] # ","
         IN  <<SubSeq(s, 1, k - 1)>> \o Fields(SubSeq(s, k + 1, Len(s)))

\* the numbers listed between the brackets of a `Block counts` line
ParseList(s) ==
    LET inner == SubSeq(s, 2, Len(s) - 1)
    IN  IF Len(inner) = 0 THEN <<>>
        ELSE [k \in 1 .. Len(Fields(inner)) |-> ParseDec(Fields(inner)[k])]

\* the argument of the report line with a given format string
Reported(label) ==
    out[CHOOSE k \in LinesOf(0) : out[k].label = label].text

\* C5: a scanned record whose name or hash is absent is not added to the
\* summary, not counted in shown_funcs, not printed and not given to the
\* value-site statistics, and the scan does not fail on it but goes on.
C5_UnusableSkipped ==
    /\ \A i \in Scanned :
          ~HasNameAndHash(i) =>
              /\ i \notin Summarised
              /\ LinesOf(i) = {}
              /\ i \notin InStats
              /\ (idx = i => pc # "panicked")
    /\ shown_funcs <= Cardinality({i \in Scanned : HasNameAndHash(i)})

\* the scan skipped a record without name or hash, then showed a later one
\* and reached its end
C5_Witness ==
    /\ pc = "done"
    /\ \E i, j \in Scanned :
          /\ i < j
          /\ ~HasNameAndHash(i)
          /\ j \in Summarised
          /\ j \in Displayed
          /\ j \in InStats

\* C6 as stated: for every profile, front-end level or IR level, only the
\* records whose context-sensitive flag equals --showcs are processed.
C6_FilterAtEveryLevel ==
    \A i \in Summarised \cup Displayed : FlagSet(i) <=> opts.showcs

\* C6 amended: for an IR-level profile a usable record is processed exactly
\* when its context-sensitive flag equals --showcs; for a front-end-level
\* profile every usable record is processed, whatever its flag and --showcs;
\* only processed records are displayed.
C6_FilterAtIrLevel ==
    /\ \A i \in Scanned :
          HasNameAndHash(i) =>
              (i \in Summarised <=> (~profile.is_ir \/ (FlagSet(i) <=> opts.showcs)))
    /\ Displayed \subseteq Summarised

\* an IR-level profile with --showcs: the flat record was left out and the
\* context-sensitive one was processed
C6_Witness ==
    /\ profile.is_ir
    /\ opts.showcs
    /\ pc = "done"
    /\ \E i, j \in Scanned :
          /\ HasNameAndHash(i) /\ ~FlagSet(i) /\ i \notin Summarised
          /\ HasNameAndHash(j) /\ FlagSet(j) /\ j \in Summarised

\* C7 as stated: the number of records added to the summary, reported as
\* the total number of functions, is the number of records of the profile
\* that have a name and a hash.
C7_TotalIsUsable ==
    pc = "done" =>
        Len(summary)
            = Cardinality({i \in 1 .. Len(profile.records) : HasNameAndHash(i)})

\* C7 amended: the number of records added to the summary is the number of
\* scanned records that have a name and a hash and, for an IR-level profile,
\* a context-sensitive flag equal to --showcs, whatever --all-functions and
\* --function are; when the scan reaches its end these are the records of
\* the profile with that property.
C7_TotalIsUsableAndUnfiltered ==
    /\ Len(summary) = Cardinality({i \in Scanned : PassesFilters(i)})
    /\ pc = "done" =>
          Len(summary)
              = Cardinality({i \in 1 .. Len(profile.records) : PassesFilters(i)})

\* an IR-level profile, neither --all-functions nor --function: of two
\* usable records one was counted
C7_Witness ==
    /\ pc = "done"
    /\ profile.is_ir
    /\ ~opts.all_functions
    /\ opts.function = None
    /\ Cardinality({i \in Scanned : HasNameAndHash(i)}) = 2
    /\ Len(summary) = 1

\* the name of the record contains the --function pattern
NameHasPattern(i) ==
    /\ opts.function # None
    /\ LET name == profile.records[i].name[1]
       IN  \E a \in 1 .. (Len(name) + 1) : \E b \in (a - 1) .. Len(name) :
               SubSeq(name, a, b) = opts.function[1]

\* C8: a record that passes the skip filters is displayed if and only if
\* --all-functions is set or a --function pattern is given that the name
\* contains; with neither flag none is displayed, and the number of
\* functions shown that is reported is the number of displayed records.
C8_DisplayedIffSelected ==
    /\ Displayed = {i \in Scanned :
                       PassesFilters(i) /\ (opts.all_functions \/ NameHasPattern(i))}
    /\ shown_funcs = Cardinality(Displayed)
    /\ pc = "done" => ParseDec(Reported("Functions shown: ")) = Cardinality(Displayed)

\* --function g without --all-functions: of two records that pass the
\* filters, the one whose name contains g was displayed
C8_Witness ==
    /\ pc = "done"
    /\ ~opts.all_functions
    /\ opts.function = Some(<<"g">>)
    /\ \E i, j \in Scanned :
          /\ PassesFilters(i) /\ i \notin Displayed
          /\ PassesFilters(j) /\ j \in Displayed
    /\ shown_funcs = 1

\* the display of the record was completed
DisplayCompleted(i) == i \in Displayed /\ (i < idx \/ pc # "panicked")

C10_NoPanic == pc # "panicked"

===========================================================================
